---- MODULE Spec2Model ----
(***************************************************************************)
(* Model of the Green-API chat bridge (src/app.py, src/config.py): the     *)
(* gateway client, the payload normaliser, the notification drain loop,    *)
(* the webhook and send handlers, and the message store.                   *)
(***************************************************************************)
EXTENDS Integers, Sequences, FiniteSets, TLC

(***************************************************************************)
(* JSON values as the handlers see them after parsing.  A Python dict is   *)
(* Obj(f) with f a function from its keys; None is Null; a string is       *)
(* Str(s).  An exception travelling through an expression is a value with  *)
(* t = "raise".                                                            *)
(***************************************************************************)
Null == [t |-> "null"]

Str(s) == [t |-> "str", v |-> s]

Num(n) == [t |-> "num", n |-> n]

Obj(f) == [t |-> "obj", f |-> f]

EmptyDict == [k \in {} |-> Null]

EmptyObj == Obj(EmptyDict)

AttributeError == [t |-> "raise", exc |-> "AttributeError"]

\* hashing a dict, as a test of membership in a set does
TypeError == [t |-> "raise", exc |-> "TypeError"]

IsRaise(v) == v.t = "raise"

\* Python truthiness of a parsed JSON value
Truthy(v) ==
  CASE v.t = "null" -> FALSE
    [] v.t = "str" -> v.v # ""
    [] v.t = "num" -> v.n # 0
    [] v.t = "obj" -> DOMAIN v.f # {}
    [] OTHER -> TRUE

\* d.get(k, default); d.get(k) is Get(d, k, Null).  A receiver that is not a
\* dict (None, a string) raises AttributeError.
Get(d, k, default) ==
  IF IsRaise(d) THEN d
  ELSE IF d.t # "obj" THEN AttributeError
  ELSE IF k \in DOMAIN d.f THEN d.f[k]
  ELSE default

\* a or b
OrElse(a, b) == IF IsRaise(a) THEN a ELSE IF Truthy(a) THEN a ELSE b

(***************************************************************************)
(* summarize_payload                                                        *)
(***************************************************************************)
SummaryLimit == 700

\* Order in which the keys of a payload are serialised (a dict keeps the order
\* in which the parser met its keys; the modelled payloads list them so).
KeyOrder ==
  << "typeMessage", "textMessageData", "extendedTextMessageData",
     "imageMessageData", "videoMessageData", "documentMessageData",
     "textMessage", "caption", "fileName", "status", "pad",
     "receiptId", "body", "typeWebhook", "stateInstance", "senderData",
     "chatId", "messageData", "statusData" >>

RECURSIVE Dumps(_)
RECURSIVE DumpsItems(_, _, _)
\* the members of dict f for the keys KeyOrder[i..], joined with ", "
DumpsItems(f, i, first) ==
  IF i > Len(KeyOrder) THEN ""
  ELSE IF KeyOrder[i] \notin DOMAIN f THEN DumpsItems(f, i + 1, first)
  ELSE (IF first THEN "" ELSE ", ")
         \o "\"" \o KeyOrder[i] \o "\": " \o Dumps(f[KeyOrder[i]])
         \o DumpsItems(f, i + 1, FALSE)

\* json.dumps(v, ensure_ascii=False) on the modelled values
Dumps(v) ==
  CASE v.t = "null" -> "null"
    [] v.t = "str" -> "\"" \o v.v \o "\""
    [] v.t = "num" -> ToString(v.n)
    [] v.t = "obj" -> "{" \o DumpsItems(v.f, 1, TRUE) \o "}"

\* str(x), as an f-string formats a value
Format(v) ==
  CASE v.t = "str" -> v.v
    [] v.t = "num" -> ToString(v.n)
    [] v.t = "null" -> "None"
    [] OTHER -> Dumps(v)

\* a summary that is cut as soon as it reaches the limit
summarize_payload_AtLimit(data, type_hint) ==
  LET summary == Dumps(data)
      cut == IF Len(summary) >= SummaryLimit
             THEN SubSeq(summary, 1, SummaryLimit) \o "..."
             ELSE summary
  IN Str("[" \o Format(type_hint) \o "] " \o cut)

summarize_payload(data, type_hint) ==
  LET summary == Dumps(data)
      cut == IF Len(summary) > SummaryLimit
             THEN SubSeq(summary, 1, SummaryLimit) \o "..."
             ELSE summary
  IN Str("[" \o Format(type_hint) \o "] " \o cut)

(***************************************************************************)
(* extract_message_text and determine_direction                             *)
(***************************************************************************)
\* a fall-through that summarises every status section that is not None
ExtractFallback_StatusNotNone(body, message_data, type_message) ==
  IF Truthy(message_data)
  THEN summarize_payload(message_data, OrElse(type_message, Str("evento")))
  ELSE LET status_data == Get(body, "statusData", Null)
       IN IF IsRaise(status_data) THEN status_data
          ELSE IF status_data # Null
          THEN summarize_payload(status_data, Str("status"))
          ELSE Null

\* the fall-through after the type dispatch (lines 120-127)
ExtractFallback(body, message_data, type_message) ==
  IF Truthy(message_data)
  THEN summarize_payload(message_data, OrElse(type_message, Str("evento")))
  ELSE LET status_data == Get(body, "statusData", Null)
       IN IF IsRaise(status_data) THEN status_data
          ELSE IF Truthy(status_data)
          THEN summarize_payload(status_data, Str("status"))
          ELSE Null

\* message_data.get(section, {}).get(field)
SectionField(message_data, section, field) ==
  Get(Get(message_data, section, EmptyObj), field, Null)

extract_message_text(body) ==
  LET md == OrElse(Get(body, "messageData", Null), EmptyObj)
      type_message == Get(md, "typeMessage", Null)
  IN IF IsRaise(md) THEN md
     ELSE IF IsRaise(type_message) THEN type_message
     ELSE IF type_message = Str("textMessage")
     THEN LET text == SectionField(md, "textMessageData", "textMessage")
          IN IF IsRaise(text) THEN text
             ELSE IF Truthy(text) THEN text
             ELSE ExtractFallback(body, md, type_message)
     ELSE IF type_message = Str("extendedTextMessage")
     THEN LET text == SectionField(md, "extendedTextMessageData", "textMessage")
          IN IF IsRaise(text) THEN text
             ELSE IF Truthy(text) THEN text
             ELSE ExtractFallback(body, md, type_message)
     ELSE IF type_message = Str("imageMessage")
     THEN OrElse(SectionField(md, "imageMessageData", "caption"),
                 Str("[Imagen recibida]"))
     ELSE IF type_message = Str("videoMessage")
     THEN OrElse(SectionField(md, "videoMessageData", "caption"),
                 Str("[Video recibido]"))
     ELSE IF type_message = Str("audioMessage")
     THEN Str("[Audio recibido]")
     ELSE IF type_message = Str("stickerMessage")
     THEN Str("[Sticker recibido]")
     ELSE IF type_message = Str("documentMessage")
     THEN LET file_name == SectionField(md, "documentMessageData", "fileName")
          IN IF IsRaise(file_name) THEN file_name
             ELSE Str("[Documento recibido: "
                      \o Format(OrElse(file_name, Str("sin nombre"))) \o "]")
     ELSE ExtractFallback(body, md, type_message)

\* The direction as a str, or the exception raised.  Line 133 tests
\* membership in a set, which hashes type_webhook: a dict has no hash.
determine_direction(body) ==
  LET type_webhook == Get(body, "typeWebhook", Null)
  IN IF IsRaise(type_webhook) THEN type_webhook
     ELSE IF type_webhook = Str("incomingMessageReceived") THEN Str("incoming")
     ELSE IF type_webhook.t = "obj" THEN TypeError
     ELSE IF type_webhook \in { Str("outgoingMessageReceived"),
                                Str("outgoingAPIMessageReceived") }
     THEN Str("outgoing")
     ELSE Str("service")

(***************************************************************************)
(* green_api_request: the gateway client                                    *)
(***************************************************************************)
\* exceptions as the callers tell them apart: the class, the class of
\* __cause__, and the status of __cause__.response
RuntimeErrorFrom(cause, status) ==
  [exc |-> "RuntimeError", cause |-> cause, status |-> status]

OtherError(exc) == [exc |-> exc, cause |-> "none", status |-> 0]

NoError == OtherError("none")

\* what the gateway does with one request: no answer at all (DNS, refused,
\* timeout), or a status with a content that is no bytes, bytes that are not
\* JSON, or a JSON value
NetFail == [kind |-> "neterr"]

Http(status, content) == [kind |-> "http", status |-> status, content |-> content]

NoContent == [c |-> "none"]

NotJson == [c |-> "text"]

Json(v) == [c |-> "json", v |-> v]

\* requests refuses a URL without a scheme (MissingSchema) before connecting
HasScheme(url) ==
  \/ Len(url) >= 7 /\ SubSeq(url, 1, 7) = "http://"
  \/ Len(url) >= 8 /\ SubSeq(url, 1, 8) = "https://"

\* lines 62-67: where the payload travels
RequestCarrier(method, data) ==
  IF method \in {"POST", "PUT", "PATCH"} /\ data # Null THEN "json"
  ELSE IF Truthy(data) THEN "params"
  ELSE "none"

\* a guard that raises only when both credentials are missing
CredentialsMissing_Both(config) ==
  ~Truthy(config.GREEN_INSTANCE_ID) /\ ~Truthy(config.GREEN_API_TOKEN)

\* line 49: the credentials the client insists on
CredentialsMissing(config) ==
  ~Truthy(config.GREEN_INSTANCE_ID) \/ ~Truthy(config.GREEN_API_TOKEN)

\* The call against a gateway that answers `reply`.  The result is the value
\* returned (k = "ok") or the exception raised (k = "raise"), with the
\* requests that went out on the network.
green_api_request(config, method, endpoint, data, reply) ==
  IF CredentialsMissing(config)
  THEN [k |-> "raise", e |-> RuntimeErrorFrom("none", 0), sent |-> <<>>]
  ELSE
    LET url == Format(config.GREEN_API_URL) \o "/waInstance"
                 \o Format(config.GREEN_INSTANCE_ID) \o "/" \o endpoint
                 \o "/" \o Format(config.GREEN_API_TOKEN)
        req == [method |-> method, url |-> url,
                carrier |-> RequestCarrier(method, data)]
    IN IF ~HasScheme(url)
       THEN [k |-> "raise", e |-> RuntimeErrorFrom("RequestException", 0),
             sent |-> <<>>]
       ELSE IF reply.kind = "neterr"
       THEN [k |-> "raise", e |-> RuntimeErrorFrom("RequestException", 0),
             sent |-> <<req>>]
       ELSE IF reply.status >= 400
       THEN [k |-> "raise", e |-> RuntimeErrorFrom("HTTPError", reply.status),
             sent |-> <<req>>]
       ELSE IF reply.content.c = "none"
       THEN [k |-> "ok", v |-> EmptyObj, sent |-> <<req>>]
       ELSE IF reply.content.c = "text"
       THEN [k |-> "raise", e |-> OtherError("JSONDecodeError"), sent |-> <<req>>]
       ELSE [k |-> "ok", v |-> reply.content.v, sent |-> <<req>>]

(***************************************************************************)
(* State                                                                    *)
(***************************************************************************)
VARIABLES
  config,   \* app.config: credentials, base URL, GREEN_API_MAX_PULL
  store,    \* the ChatMessage table in id order
  drain,    \* per worker: the frame of sync_incoming_messages it is running
  lastCall, \* the latest call of green_api_request made for the request most
            \* recently taken up, and how it ended (NoCall if it made none)
  last,     \* the answer to the request most recently taken up (NoAnswer
            \* while it is being served)
  served,   \* number of requests taken up so far
  hist,     \* per worker: what its current drain has done so far (history)
  probe,    \* the body handed to both inbound paths when they are compared
  created,  \* created_at of the rows of the table, in id order (tracked where
            \* the listing of the dashboard is modelled)
  listing,  \* the ids of recent_messages as the dashboard last rendered them
  gw        \* the gateway's notification queue and its log of the current
            \* drains (tracked where the gateway is modelled as a queue)

vars == <<config, store, drain, lastCall, last, served, hist, probe,
          created, listing, gw>>

\* workers that may run a sync request at the same time
AllWorkers == {"w1", "w2"}

Workers == {"w1"}

(***************************************************************************)
(* Bounds and the inputs the environment chooses from                       *)
(***************************************************************************)
MaxPullCfg == 2

\* requests the server takes up in one run
MaxRequests == 2

MaxPullValues == -1 .. MaxPullCfg

\* a dict with the keys of f whose value is not Absent
Absent == [t |-> "absent"]

Dict(f) == Obj([k \in {j \in DOMAIN f : f[j] # Absent} |-> f[k]])

ChatId == "34600000000@c.us"

RECURSIVE Rep(_, _)
\* the string s repeated n times
Rep(s, n) ==
  IF n = 0 THEN ""
  ELSE IF n % 2 = 0 THEN LET half == Rep(s, n \div 2) IN half \o half
  ELSE s \o Rep(s, n - 1)

\* a message section of a kind the normaliser does not know, with a field of
\* n characters
Padded(tag, n) == Dict([typeMessage |-> tag, pad |-> Str(Rep("x", n))])

\* the field length at which the serialised section is SummaryLimit long
PadAtLimit(tag) == SummaryLimit - Len(Dumps(Padded(tag, 0)))

\* sections whose serialised form is just below, at, just above and far
\* above SummaryLimit
PaddedDatas ==
  { Padded(Absent, PadAtLimit(Absent) + d) : d \in {-1, 0, 1, SummaryLimit} }
  \cup { Padded(Str("pollMessage"), PadAtLimit(Str("pollMessage")) + 1) }

\* the lengths the form accepts, which are those of the columns
MaxChatIdLen == 64

MaxMessageLen == 4096

SenderDatas ==
  { Absent, Null, EmptyObj,
    Dict([chatId |-> Null]), Dict([chatId |-> Str("")]),
    Dict([chatId |-> Str(ChatId)]),
    Dict([chatId |-> Str(Rep("9", MaxChatIdLen + 1))]) }

MessageDatas ==
  { Absent, Null, EmptyObj,
    Dict([typeMessage |-> Str("textMessage"),
          textMessageData |-> Dict([textMessage |-> Str("hi")])]),
    Dict([typeMessage |-> Str("textMessage"),
          textMessageData |-> Dict([textMessage |-> Str("")])]),
    Dict([typeMessage |-> Str("textMessage")]),
    Dict([typeMessage |-> Str("textMessage"), textMessageData |-> Null]),
    Dict([typeMessage |-> Str("extendedTextMessage"),
          extendedTextMessageData |-> Dict([textMessage |-> Str("re: hi")])]),
    Dict([typeMessage |-> Str("extendedTextMessage"),
          extendedTextMessageData |-> EmptyObj]),
    Dict([typeMessage |-> Str("imageMessage"),
          imageMessageData |-> Dict([caption |-> Str("foto")])]),
    Dict([typeMessage |-> Str("imageMessage")]),
    Dict([typeMessage |-> Str("imageMessage"), imageMessageData |-> Null]),
    Dict([typeMessage |-> Str("videoMessage"),
          videoMessageData |-> Dict([caption |-> Str("")])]),
    Dict([typeMessage |-> Str("audioMessage")]),
    Dict([typeMessage |-> Str("stickerMessage")]),
    Dict([typeMessage |-> Str("documentMessage"),
          documentMessageData |-> Dict([fileName |-> Str("a.pdf")])]),
    Dict([typeMessage |-> Str("documentMessage")]),
    Dict([typeMessage |-> Str("pollMessage")]),
    Dict([pad |-> Str("x")]),
    Str("text"),
    Dict([typeMessage |-> Str("textMessage"),
          textMessageData |->
            Dict([textMessage |-> Str(Rep("a", MaxMessageLen + 1))])]) }
  \cup PaddedDatas

StatusDatas == { Absent, Null, EmptyObj, Dict([status |-> Str("read")]) }

TypeWebhooks ==
  { Absent, Null, Str("incomingMessageReceived"), Str("outgoingMessageReceived"),
    Str("outgoingAPIMessageReceived"), Str("stateInstanceChanged"),
    Dict([stateInstance |-> Str("authorized")]) }

Body(tw, sd, md, st) ==
  Dict([typeWebhook |-> tw, senderData |-> sd, messageData |-> md,
        statusData |-> st])

\* every notification body the gateway may deliver
Bodies ==
  { Body(tw, sd, md, st) :
      tw \in TypeWebhooks, sd \in SenderDatas, md \in MessageDatas,
      st \in StatusDatas }

\* the bodies the gateway delivers in the runs of the whole system: one for
\* each way a handler can go
SomeBodies ==
  { Body(Str("incomingMessageReceived"), Dict([chatId |-> Str(ChatId)]),
         Dict([typeMessage |-> Str("textMessage"),
               textMessageData |-> Dict([textMessage |-> Str("hi")])]), Absent),
    Body(Str("stateInstanceChanged"), Dict([chatId |-> Str(ChatId)]),
         Absent, Dict([status |-> Str("read")])),
    Body(Str("outgoingMessageReceived"), Dict([chatId |-> Str(ChatId)]),
         Absent, Absent),
    Body(Str("incomingMessageReceived"), Absent,
         Dict([typeMessage |-> Str("audioMessage")]), Absent),
    Body(Str("incomingMessageReceived"), Dict([chatId |-> Str("")]),
         Dict([typeMessage |-> Str("audioMessage")]), Absent),
    Body(Str("incomingMessageReceived"), Null,
         Dict([typeMessage |-> Str("audioMessage")]), Absent),
    Body(Absent, Dict([chatId |-> Str(ChatId)]),
         Dict([typeMessage |-> Str("imageMessage"), imageMessageData |-> Null]),
         Absent) }

ReceiptIds == { Absent, Num(1) }

\* what a pull can be answered with when it is answered with JSON
Notifications ==
  { Dict([receiptId |-> r, body |-> b]) :
      r \in ReceiptIds, b \in SomeBodies \cup {Absent, Null} }

PullReplies ==
  { NetFail, Http(404, NoContent), Http(500, NoContent), Http(200, NoContent),
    Http(200, NotJson), Http(200, Json(Null)), Http(200, Json(EmptyObj)) }
  \cup { Http(200, Json(n)) : n \in Notifications }

DeleteReplies ==
  { NetFail, Http(404, NoContent), Http(500, NoContent), Http(200, NoContent),
    Http(200, NotJson), Http(200, Json(Dict([result |-> Str("true")]))) }

SendReplies ==
  { NetFail, Http(500, NoContent), Http(200, NoContent),
    Http(200, NotJson), Http(200, Json(Dict([idMessage |-> Str("m1")]))) }

\* what the gateway (or anyone) may post to the webhook: request.json
WebhookPayloads ==
  { Null, EmptyObj, Dict([body |-> Null]) }
  \cup { Dict([body |-> b]) : b \in SomeBodies }

\* what an operator may type into the send form
FormChatIds == { "", ChatId }

FormMessages == { "", "hola" }

Configs ==
  [ GREEN_API_URL : { Str(""), Str("https://7107.api.green-api.com") },
    GREEN_INSTANCE_ID : { Str(""), Str("7107349111") },
    GREEN_API_TOKEN : { Null, Str("secret") },
    GREEN_API_MAX_PULL : MaxPullValues ]

(***************************************************************************)
(* Initial state: the application as create_app leaves it                   *)
(***************************************************************************)
IdleFrame ==
  [ pc |-> "idle", processed |-> 0, max_pulls |-> 0, iterations |-> 0,
    notification |-> Null, receipt_id |-> Null, err |-> NoError ]

\* History of one drain: pull attempts, delete attempts, the iteration of the
\* latest delete attempt, the records it committed with their ids, how many of
\* them in the current iteration, what the gateway answered to the latest pull
\* ("nonempty", "empty", "404", "error"), and whether every pull so far was
\* answered with a non-empty notification.
NoHistory ==
  [ pulls |-> 0, acks |-> 0, ackIter |-> 0, mine |-> <<>>, kept |-> 0,
    pulled |-> "none", clean |-> TRUE ]

\* what the gateway client handed back for a pull, as the history records it
PullAnswer(r) ==
  IF r.k = "ok"
  THEN IF r.v \in {Null, EmptyObj} THEN "empty" ELSE "nonempty"
  ELSE IF r.e.cause = "HTTPError" /\ r.e.status = 404 THEN "404" ELSE "error"

NoCall ==
  [ method |-> "none", endpoint |-> "", data |-> Null,
    k |-> "none", e |-> NoError, sent |-> <<>> ]

Called(method, endpoint, data, r) ==
  [ method |-> method, endpoint |-> endpoint, data |-> data, k |-> r.k, e |-> IF r.k = "raise" THEN r.e ELSE NoError,
    sent |-> r.sent ]

\* the body both inbound paths are given when they are compared, and which of
\* them has been given it
NoProbe == [ body |-> Absent, webhook |-> FALSE, drain |-> FALSE ]

NoAnswer == [ handler |-> "none", status |-> 0, flash |-> "none", n |-> 0 ]

\* a gateway with nothing queued: the notifications waiting, and per worker
\* the queue as it was when the worker's current drain began, the
\* notifications handed to that drain, and the deletes the drain asked for,
\* with whether each removed its notification
NoGateway ==
  [ queue |-> <<>>,
    queued |-> [w \in AllWorkers |-> <<>>],
    out |-> [w \in AllWorkers |-> <<>>],
    dels |-> [w \in AllWorkers |-> <<>>] ]

Answer(handler, status, flash, n) ==
  [ handler |-> handler, status |-> status, flash |-> flash, n |-> n ]

Init ==
  /\ config \in Configs
  /\ store = <<>>
  /\ drain = [w \in AllWorkers |-> IdleFrame]
  /\ hist = [w \in AllWorkers |-> NoHistory]
  /\ lastCall = NoCall
  /\ last = NoAnswer
  /\ served = 0
  /\ probe = NoProbe
  /\ created = <<>>
  /\ listing = <<>>
  /\ gw = NoGateway

\* a row of the ChatMessage table (id is its position in store)
ChatMessage(chat_id, message, direction) ==
  [ chat_id |-> Format(chat_id), message |-> Format(message),
    direction |-> direction ]

\* a commit that puts its rows before the rows of the table
Commit_Front(table, add) == add \o table

\* a commit that writes its row over the newest row of the table
Commit_OverNewest(table, add) ==
  IF table = <<>> \/ add = <<>> THEN table \o add
  ELSE SubSeq(table, 1, Len(table) - 1) \o add

\* db.session.add(msg); db.session.commit(): the rows of one transaction are
\* appended to the table as it is at the commit
Commit(table, add) == table \o add

(***************************************************************************)
(* POST /sync and sync_incoming_messages                                    *)
(***************************************************************************)
Max(a, b) == IF a >= b THEN a ELSE b

\* a loop that handles one notification and returns
LoopPc_Once(iterations, max_pulls) ==
  IF iterations < 1 THEN "pull" ELSE "returned"

\* the test of the while loop: another iteration, or return processed
LoopPc(iterations, max_pulls) ==
  IF iterations < max_pulls THEN "pull" ELSE "returned"

\* lines 149-154: the RuntimeError of a pull that means "queue empty"
Is404(e) ==
  e.exc = "RuntimeError" /\ e.cause = "HTTPError" /\ e.status = 404

\* a loop that leaves on 404 alone, without the test of the empty result
PullBreaks_Only404(r) == r.k = "raise" /\ Is404(r.e)

\* a loop that takes every RuntimeError of the pull for an empty queue
PullBreaks_AnyRuntimeError(r) ==
  IF r.k = "raise" THEN r.e.exc = "RuntimeError" ELSE ~Truthy(r.v)

\* lines 148-159 on the result r of the pull: leave the loop without error?
PullBreaks(r) == IF r.k = "raise" THEN Is404(r.e) ELSE ~Truthy(r.v)

\* what the handling of one pulled notification comes to: an exception that
\* escapes, or the receipt id read and the records committed
Crashed(raised) ==
  [ crash |-> TRUE, exc |-> raised.exc, receipt_id |-> Null, add |-> <<>> ]

Handled(receipt_id, add) ==
  [ crash |-> FALSE, exc |-> "none", receipt_id |-> receipt_id, add |-> add ]

\* lines 172-179: the record is committed unless the direction raised
StoreDirected(receipt_id, chat_id, message_text, direction) ==
  IF IsRaise(direction) THEN Crashed(direction)
  ELSE Handled(receipt_id, <<ChatMessage(chat_id, message_text, direction.v)>>)

\* lines 170-185 on the text extracted from the body
StoreText(receipt_id, chat_id, body, message_text) ==
  IF IsRaise(message_text) THEN Crashed(message_text)
  ELSE IF Truthy(message_text)
  THEN StoreDirected(receipt_id, chat_id, message_text, determine_direction(body))
  ELSE Handled(receipt_id, <<>>)

\* a drain that commits whenever there is a chat id, text or no text
StoreNotification_NoTextCheck(notification) ==
  LET receipt_id == Get(notification, "receiptId", Null)
      body == Get(notification, "body", EmptyObj)
      chat_id == Get(Get(body, "senderData", EmptyObj), "chatId", Null)
  IN IF IsRaise(receipt_id) THEN Crashed(receipt_id)
     ELSE IF IsRaise(chat_id) THEN Crashed(chat_id)
     ELSE IF Truthy(chat_id)
     THEN LET message_text == extract_message_text(body)
          IN IF IsRaise(message_text) THEN Crashed(message_text)
             ELSE StoreDirected(receipt_id, chat_id,
                                IF Truthy(message_text) THEN message_text ELSE Str(""),
                                determine_direction(body))
     ELSE Handled(receipt_id, <<>>)

\* lines 161-185 on a pulled notification
StoreNotification(notification) ==
  LET receipt_id == Get(notification, "receiptId", Null)
      body == Get(notification, "body", EmptyObj)
      chat_id == Get(Get(body, "senderData", EmptyObj), "chatId", Null)
  IN IF IsRaise(receipt_id) THEN Crashed(receipt_id)
     ELSE IF IsRaise(chat_id) THEN Crashed(chat_id)
     ELSE IF Truthy(chat_id)
     THEN StoreText(receipt_id, chat_id, body, extract_message_text(body))
     ELSE Handled(receipt_id, <<>>)

\* an acknowledgment whose every failure aborts the drain
AckEscapes_Any(r) == r.k = "raise"

\* lines 188-191 on the result r of the delete: does an exception escape?
AckEscapes(r) == r.k = "raise" /\ r.e.exc # "RuntimeError"

\* The server takes up a request when the one before it has been answered
\* (one synchronous worker thread).
Quiet == \A w \in AllWorkers : drain[w].pc = "idle"

\* sync_notifications up to the first pull; an invalid form is answered at once
SyncBegin(w, forms) ==
  /\ drain[w].pc = "idle"
  /\ served < MaxRequests
  /\ served' = served + 1
  /\ \E valid \in forms :
       IF valid
       THEN LET max_pulls == Max(config.GREEN_API_MAX_PULL, 1)
            IN /\ drain' = [drain EXCEPT ![w] =
                    [IdleFrame EXCEPT !.max_pulls = max_pulls,
                                      !.pc = LoopPc(0, max_pulls)]]
               /\ hist' = [hist EXCEPT ![w] = NoHistory]
               /\ last' = NoAnswer
       ELSE /\ last' = Answer("sync", 302, "danger", 0)
            /\ UNCHANGED <<drain, hist>>
  /\ lastCall' = NoCall
  /\ UNCHANGED <<config, store, created, listing>>

SyncStartOn(w, forms) == Quiet /\ SyncBegin(w, forms)

SyncStart(w) == SyncStartOn(w, BOOLEAN) /\ UNCHANGED <<probe, gw>>

\* lines 145-159: one pull of receiveNotification, answered from replies
DrainPullOn(w, replies) ==
  /\ drain[w].pc = "pull"
  /\ \E reply \in replies :
       LET d == drain[w]
           r == green_api_request(config, "GET", "receiveNotification", Null, reply)
           pc == IF PullBreaks(r) THEN "returned"
                 ELSE IF r.k = "raise" THEN "raised" ELSE "store"
       IN /\ drain' = [drain EXCEPT ![w] =
               [d EXCEPT !.iterations = @ + 1,
                         !.pc = pc,
                         !.notification = IF pc = "store" THEN r.v ELSE Null,
                         !.err = IF pc = "raised" THEN r.e ELSE NoError]]
          /\ hist' = [hist EXCEPT ![w] =
               [@ EXCEPT !.pulls = @ + 1,
                         !.kept = 0,
                         !.pulled = PullAnswer(r),
                         !.clean = @ /\ PullAnswer(r) = "nonempty"]]
          /\ lastCall' = Called("GET", "receiveNotification", Null, r)
  /\ UNCHANGED <<config, store, last, served, probe, created, listing>>

DrainPull(w) == DrainPullOn(w, PullReplies) /\ UNCHANGED gw

\* lines 161-185: normalise the pulled notification and commit its record
DrainStore(w) ==
  /\ drain[w].pc = "store"
  /\ LET d == drain[w]
         out == StoreNotification(d.notification)
         next == IF Truthy(out.receipt_id) THEN "ack"
                 ELSE LoopPc(d.iterations, d.max_pulls)
     IN /\ store' = Commit(store, out.add)
        /\ drain' = [drain EXCEPT ![w] =
             [d EXCEPT !.pc = IF out.crash THEN "raised" ELSE next,
                       !.receipt_id = out.receipt_id,
                       !.processed = @ + Len(out.add),
                       !.err = IF out.crash THEN OtherError(out.exc)
                               ELSE NoError]]
        /\ hist' = [hist EXCEPT ![w] =
             [@ EXCEPT !.mine = @ \o [i \in 1 .. Len(out.add) |->
                                        [id |-> Len(store) + i, rec |-> out.add[i]]],
                       !.kept = Len(out.add)]]
  /\ UNCHANGED <<config, lastCall, last, served, probe, created, listing, gw>>

\* lines 187-191: acknowledge the notification; a RuntimeError is logged
DrainAckOn(w, replies) ==
  /\ drain[w].pc = "ack"
  /\ \E reply \in replies :
       LET d == drain[w]
           endpoint == "deleteNotification/" \o Format(d.receipt_id)
           r == green_api_request(config, "DELETE", endpoint, Null, reply)
           next == LoopPc(d.iterations, d.max_pulls)
       IN /\ drain' = [drain EXCEPT ![w] =
               [d EXCEPT !.pc = IF AckEscapes(r) THEN "raised" ELSE next,
                         !.err = IF AckEscapes(r) THEN r.e ELSE NoError]]
          /\ hist' = [hist EXCEPT ![w] =
               [@ EXCEPT !.acks = @ + 1,
                         !.ackIter = d.iterations]]
          /\ lastCall' = Called("DELETE", endpoint, Null, r)
  /\ UNCHANGED <<config, store, last, served, probe, created, listing>>

DrainAck(w) == DrainAckOn(w, DeleteReplies) /\ UNCHANGED gw

\* lines 267-286: the answer of sync_notifications once the drain has ended
SyncRespond(w) ==
  /\ drain[w].pc \in {"returned", "raised"}
  /\ LET d == drain[w]
     IN last' =
          IF d.pc = "returned"
          THEN IF d.processed # 0
               THEN Answer("sync", 302, "success", d.processed)
               ELSE Answer("sync", 302, "info", 0)
          ELSE IF d.err.exc = "RuntimeError"
          THEN Answer("sync", 302, "danger", 0)
          ELSE Answer("sync", 500, "none", 0)
  /\ drain' = [drain EXCEPT ![w] = IdleFrame]
  /\ hist' = [hist EXCEPT ![w] = NoHistory]
  /\ UNCHANGED <<config, store, lastCall, served, probe, created, listing, gw>>

(***************************************************************************)
(* POST / (dashboard): the send flow                                        *)
(***************************************************************************)
RECURSIVE IsBlank(_)
\* s.strip() is empty
IsBlank(s) ==
  IF s = "" THEN TRUE
  ELSE SubSeq(s, 1, 1) = " " /\ IsBlank(SubSeq(s, 2, Len(s)))

\* DataRequired() and Length(max=...) of SendMessageForm, with the CSRF check
\* of FlaskForm
validate_on_submit(csrf, chat_id, message) ==
  /\ csrf
  /\ ~IsBlank(chat_id) /\ Len(chat_id) <= MaxChatIdLen
  /\ ~IsBlank(message) /\ Len(message) <= MaxMessageLen

\* a send flow that commits the record before it looks at the call's result
SendOutcome_CommitFirst(chat_id, message, r) ==
  [ add |-> <<ChatMessage(Str(chat_id), Str(message), "outgoing")>>,
    answer |-> IF r.k = "ok" THEN Answer("send", 302, "success", 0)
               ELSE IF r.e.exc = "RuntimeError"
               THEN Answer("send", 200, "danger", 0)
               ELSE Answer("send", 500, "none", 0) ]

\* lines 220-230 on the result r of the sendMessage call: the records
\* committed and the answer
SendOutcome(chat_id, message, r) ==
  IF r.k = "ok"
  THEN [ add |-> <<ChatMessage(Str(chat_id), Str(message), "outgoing")>>,
         answer |-> Answer("send", 302, "success", 0) ]
  ELSE [ add |-> <<>>,
         answer |-> IF r.e.exc = "RuntimeError"
                    THEN Answer("send", 200, "danger", 0)
                    ELSE Answer("send", 500, "none", 0) ]

Send ==
  /\ Quiet
  /\ served < MaxRequests
  /\ served' = served + 1
  /\ \E csrf \in BOOLEAN, chat_id \in FormChatIds, message \in FormMessages,
        reply \in SendReplies :
       IF validate_on_submit(csrf, chat_id, message)
       THEN LET payload == Dict([chatId |-> Str(chat_id), message |-> Str(message)])
                r == green_api_request(config, "POST", "sendMessage", payload, reply)
                out == SendOutcome(chat_id, message, r)
            IN /\ lastCall' = Called("POST", "sendMessage", payload, r)
               /\ store' = Commit(store, out.add)
               /\ last' = out.answer
       ELSE /\ last' = Answer("send", 200, "none", 0)
            /\ lastCall' = NoCall
            /\ UNCHANGED store
  /\ UNCHANGED <<config, drain, hist, probe, created, listing, gw>>

(***************************************************************************)
(* POST /webhook/green                                                      *)
(***************************************************************************)
\* lines 251-258: the record is committed unless the direction raised
WebhookDirected(chat_id, message_text, direction) ==
  IF IsRaise(direction) THEN [status |-> 500, add |-> <<>>]
  ELSE [status |-> 200,
        add |-> <<ChatMessage(chat_id, message_text, direction.v)>>]

\* a webhook that files everything it stores as incoming
green_webhook_AlwaysIncoming(json) ==
  LET payload == OrElse(json, EmptyObj)
      body == Get(payload, "body", EmptyObj)
      chat_id == Get(Get(body, "senderData", EmptyObj), "chatId", Null)
      message_text == IF IsRaise(chat_id) THEN chat_id
                      ELSE extract_message_text(body)
  IN IF IsRaise(message_text)
     THEN [status |-> 500, add |-> <<>>]
     ELSE IF Truthy(chat_id) /\ Truthy(message_text)
     THEN [status |-> 200, add |-> <<ChatMessage(chat_id, message_text, "incoming")>>]
     ELSE [status |-> 200, add |-> <<>>]

\* lines 245-260 on request.json = json: the records committed (none or one)
\* and the status of the answer
green_webhook(json) ==
  LET payload == OrElse(json, EmptyObj)
      body == Get(payload, "body", EmptyObj)
      chat_id == Get(Get(body, "senderData", EmptyObj), "chatId", Null)
      message_text == IF IsRaise(chat_id) THEN chat_id
                      ELSE extract_message_text(body)
  IN IF IsRaise(message_text)
     THEN [status |-> 500, add |-> <<>>]
     ELSE IF Truthy(chat_id) /\ Truthy(message_text)
     THEN WebhookDirected(chat_id, message_text, determine_direction(body))
     ELSE [status |-> 200, add |-> <<>>]

WebhookOn(payloads) ==
  /\ Quiet
  /\ served < MaxRequests
  /\ served' = served + 1
  /\ \E json \in payloads :
       LET out == green_webhook(json)
       IN /\ store' = Commit(store, out.add)
          /\ last' = Answer("webhook", out.status, "none", 0)
  /\ lastCall' = NoCall
  /\ UNCHANGED <<config, drain, hist, created, listing, gw>>

Webhook == WebhookOn(WebhookPayloads) /\ UNCHANGED probe

(***************************************************************************)
(* The system: one worker thread serving sync, send and webhook requests,   *)
(* each to completion (section 5 of the specification)                      *)
(***************************************************************************)
Next ==
  \/ \E w \in Workers : SyncStart(w)
  \/ \E w \in Workers : DrainPull(w)
  \/ \E w \in Workers : DrainStore(w)
  \/ \E w \in Workers : DrainAck(w)
  \/ \E w \in Workers : SyncRespond(w)
  \/ Send
  \/ Webhook

Spec == Init /\ [][Next]_vars

(***************************************************************************)
(* The two inbound paths on one body: the webhook is posted the body and a  *)
(* drain pulls a notification carrying it, in either order                  *)
(***************************************************************************)
PathConfigs ==
  { c \in Configs : /\ Truthy(c.GREEN_API_URL) /\ Truthy(c.GREEN_INSTANCE_ID)
                    /\ Truthy(c.GREEN_API_TOKEN) /\ c.GREEN_API_MAX_PULL = 1 }

InitPaths ==
  /\ config \in PathConfigs
  /\ store = <<>>
  /\ drain = [w \in AllWorkers |-> IdleFrame]
  /\ hist = [w \in AllWorkers |-> NoHistory]
  /\ lastCall = NoCall
  /\ last = NoAnswer
  /\ served = 0
  /\ probe \in [body : Bodies \cup {Null, Absent}, webhook : {FALSE},
                drain : {FALSE}]
  /\ created = <<>>
  /\ listing = <<>>
  /\ gw = NoGateway

PathWebhook ==
  /\ ~probe.webhook
  /\ WebhookOn({Dict([body |-> probe.body])})
  /\ probe' = [probe EXCEPT !.webhook = TRUE]

PathSync ==
  /\ ~probe.drain
  /\ SyncStartOn("w1", {TRUE})
  /\ probe' = [probe EXCEPT !.drain = TRUE]
  /\ UNCHANGED gw

PathPull ==
  /\ DrainPullOn("w1", {Http(200, Json(Dict([receiptId |-> Num(1), body |-> probe.body])))})
  /\ UNCHANGED gw

NextPaths ==
  \/ PathWebhook
  \/ PathSync
  \/ PathPull
  \/ DrainStore("w1")
  \/ DrainAck("w1")
  \/ SyncRespond("w1")

SpecPaths == InitPaths /\ [][NextPaths]_vars

(***************************************************************************)
(* Drains against a gateway that keeps a queue of notifications: a pull is  *)
(* answered with the head of the queue, which stays there until a delete    *)
(* for its receipt id removes it                                            *)
(***************************************************************************)
QueueConfigs ==
  { c \in Configs : /\ Truthy(c.GREEN_API_URL) /\ Truthy(c.GREEN_INSTANCE_ID)
                    /\ Truthy(c.GREEN_API_TOKEN) /\ c.GREEN_API_MAX_PULL >= 1 }

QueueKinds == { "text", "status", "nochat", "noreceipt", "nullbody" }

\* the i-th notification the gateway queued, of the given kind
QueueEntry(kind, i) ==
  LET sender == Dict([chatId |-> Str(ChatId)])
      text == Dict([typeMessage |-> Str("textMessage"),
                    textMessageData |->
                      Dict([textMessage |-> Str("m" \o ToString(i))])])
      incoming == Str("incomingMessageReceived")
  IN CASE kind = "text" ->
            Dict([receiptId |-> Num(i), body |-> Body(incoming, sender, text, Absent)])
       [] kind = "status" ->
            Dict([receiptId |-> Num(i),
                  body |-> Body(Str("stateInstanceChanged"), sender, Absent, EmptyObj)])
       [] kind = "nochat" ->
            Dict([receiptId |-> Num(i), body |-> Body(incoming, Absent, text, Absent)])
       [] kind = "noreceipt" ->
            Dict([body |-> Body(incoming, sender, text, Absent)])
       [] kind = "nullbody" ->
            Dict([receiptId |-> Num(i), body |-> Null])

Queues ==
  { <<>> }
  \cup { <<QueueEntry(a, 1)>> : a \in QueueKinds }
  \cup { <<QueueEntry(a, 1), QueueEntry(b, 2)>> : a, b \in QueueKinds }

QueuePullReply(queue) ==
  IF queue = <<>> THEN Http(200, Json(Null)) ELSE Http(200, Json(Head(queue)))

\* a delete is carried out and answered, or fails and removes nothing
QueueDeleteReplies ==
  { Http(200, Json(Dict([result |-> Str("true")]))), Http(500, NoContent), NetFail }

Deleted(reply) == reply.kind = "http" /\ reply.status < 400

\* the notification a delete request names
Names(endpoint, n) ==
  endpoint = "deleteNotification/" \o Format(Get(n, "receiptId", Null))

QueueWithout(queue, endpoint) ==
  SelectSeq(queue, LAMBDA n : ~Names(endpoint, n))

InitQueue ==
  /\ config \in QueueConfigs
  /\ store = <<>>
  /\ drain = [w \in AllWorkers |-> IdleFrame]
  /\ hist = [w \in AllWorkers |-> NoHistory]
  /\ lastCall = NoCall
  /\ last = NoAnswer
  /\ served = 0
  /\ probe = NoProbe
  /\ created = <<>>
  /\ listing = <<>>
  /\ gw \in { [NoGateway EXCEPT !.queue = q] : q \in Queues }

\* a sync request arrives at a worker that is free
QueueSync(w) ==
  /\ SyncBegin(w, {TRUE})
  /\ gw' = [gw EXCEPT !.queued[w] = gw.queue, !.out[w] = <<>>, !.dels[w] = <<>>]
  /\ UNCHANGED probe

QueuePull(w) ==
  /\ DrainPullOn(w, {QueuePullReply(gw.queue)})
  /\ gw' = [gw EXCEPT !.out[w] =
               IF gw.queue = <<>> THEN @ ELSE Append(@, Head(gw.queue))]

QueueAck(w) ==
  \E reply \in QueueDeleteReplies :
    /\ DrainAckOn(w, {reply})
    /\ gw' = [gw EXCEPT
                !.queue = IF Deleted(reply)
                          THEN QueueWithout(@, lastCall'.endpoint) ELSE @,
                !.dels[w] = Append(@, [ at |-> Len(gw.out[w]),
                                        endpoint |-> lastCall'.endpoint,
                                        ok |-> Deleted(reply) ])]

\* two workers serving sync requests at the same time
NextDrains ==
  \/ \E w \in AllWorkers : QueueSync(w)
  \/ \E w \in AllWorkers : QueuePull(w)
  \/ \E w \in AllWorkers : DrainStore(w)
  \/ \E w \in AllWorkers : QueueAck(w)
  \/ \E w \in AllWorkers : SyncRespond(w)

SpecDrains == InitQueue /\ [][NextDrains]_vars

\* one worker: no two drains overlap
NextQueue ==
  \/ \E w \in Workers : QueueSync(w)
  \/ \E w \in Workers : QueuePull(w)
  \/ \E w \in Workers : DrainStore(w)
  \/ \E w \in Workers : QueueAck(w)
  \/ \E w \in Workers : SyncRespond(w)

SpecQueue == InitQueue /\ [][NextQueue]_vars

(***************************************************************************)
(* GET /: the listing of the dashboard over a table of rows with their      *)
(* created_at                                                               *)
(***************************************************************************)
RecentLimit == 50

\* rows in the table, and the latest reading of the clock
MaxRows == 4

MaxClock == 2

Min(a, b) == IF a <= b THEN a ELSE b

\* The ways the database may answer ORDER BY created_at DESC over rows with
\* the created_at values c (by id): every order of the ids that does not put
\* an older row first.  The order among rows of equal created_at is left to
\* the database.
Orderings(c) ==
  { p \in [1 .. Len(c) -> 1 .. Len(c)] :
      /\ \A i, j \in 1 .. Len(c) : i # j => p[i] # p[j]
      /\ \A i \in 1 .. Len(c) - 1 : c[p[i]] >= c[p[i + 1]] }

\* lines 232-234: what .order_by(created_at.desc()).limit(50).all() may return
recent_messages(c) ==
  { SubSeq(p, 1, Min(RecentLimit, Len(c))) : p \in Orderings(c) }

\* a table of up to MaxRows rows, each stamped with the clock of its insert
InitRecent ==
  /\ config \in PathConfigs
  /\ created \in UNION { [1 .. n -> 0 .. MaxClock] : n \in 0 .. MaxRows }
  /\ store = [i \in 1 .. Len(created) |->
                ChatMessage(Str(ChatId), Str("hola"), "outgoing")]
  /\ drain = [w \in AllWorkers |-> IdleFrame]
  /\ hist = [w \in AllWorkers |-> NoHistory]
  /\ lastCall = NoCall
  /\ last = NoAnswer
  /\ served = 0
  /\ probe = NoProbe
  /\ listing = <<>>
  /\ gw = NoGateway

\* lines 232-241: the dashboard is rendered with the recent messages
DashboardGet ==
  /\ listing' \in recent_messages(created)
  /\ last' = Answer("dashboard", 200, "none", 0)
  /\ UNCHANGED <<config, store, drain, lastCall, served, hist, probe, created, gw>>

NextRecent == DashboardGet

SpecRecent == InitRecent /\ [][NextRecent]_vars

(***************************************************************************)
(* Properties                                                               *)
(***************************************************************************)
\* N = max(M, 1) for the configured GREEN_API_MAX_PULL = M
DrainN ==
  IF config.GREEN_API_MAX_PULL >= 1 THEN config.GREEN_API_MAX_PULL ELSE 1

Ended(w) == drain[w].pc \in {"returned", "raised"}

\* every record the drain of w committed is in the store as it was committed
MineKept(w) ==
  \A i \in 1 .. Len(hist[w].mine) :
    /\ hist[w].mine[i].id <= Len(store)
    /\ store[hist[w].mine[i].id] = hist[w].mine[i].rec

\* d[k] read leniently: absent when d is no dict or lacks the key
Lookup(d, k) == IF d.t = "obj" /\ k \in DOMAIN d.f THEN d.f[k] ELSE Null

\* the chat identifier a notification carries, if any
CarriedChatId(n) == Lookup(Lookup(Lookup(n, "body"), "senderData"), "chatId")

\* C1: a drain whose every pull was answered with a non-empty notification
\* ends after exactly N = max(M, 1) pull attempts, whatever the deletes did.
C1_DrainBound ==
  \A w \in Workers :
    (Ended(w) /\ hist[w].clean) => hist[w].pulls = DrainN

\* C2: when pull attempt k is answered with 404 or with an empty result, the
\* drain returns without error after exactly k pulls, has made no delete in
\* attempt k and no gateway call after the pull, and returns the number of
\* records it committed before.
C2_QueueEmptyShortCircuit ==
  \A w \in Workers :
    hist[w].pulled \in {"404", "empty"} =>
      /\ drain[w].pc = "returned" /\ drain[w].err = NoError
      /\ hist[w].pulls = drain[w].iterations /\ hist[w].pulls <= DrainN
      /\ hist[w].ackIter < hist[w].pulls
      /\ lastCall.method = "GET"
      /\ hist[w].kept = 0
      /\ drain[w].processed = Len(hist[w].mine)
      /\ MineKept(w)

C2_Witness ==
  \E w \in Workers :
    /\ hist[w].pulled \in {"404", "empty"}
    /\ hist[w].pulls = 2 /\ Len(hist[w].mine) = 1 /\ hist[w].acks = 1

\* the delete of the current iteration failed with a gateway error
AckFailed ==
  /\ lastCall.method = "DELETE"
  /\ lastCall.k = "raise" /\ lastCall.e.exc = "RuntimeError"

\* C3: after a delete that failed with a gateway error the records committed
\* by the drain are still in the store, no exception is pending, and the drain
\* stands at the next pull unless the iteration bound is reached.
C3_AckFailureIndependence ==
  \A w \in Workers :
    (drain[w].pc # "idle" /\ AckFailed) =>
      /\ drain[w].pc = (IF drain[w].iterations < DrainN THEN "pull" ELSE "returned")
      /\ drain[w].err = NoError
      /\ drain[w].processed = Len(hist[w].mine)
      /\ MineKept(w)

C3_Witness ==
  \E w \in Workers :
    /\ AckFailed /\ lastCall.e.status = 404
    /\ drain[w].pc = "pull" /\ hist[w].kept = 1 /\ Len(store) >= 1

\* C4: when pull attempt k fails with an error that is not an HTTP 404, the
\* drain has raised that error at attempt k, with no delete in attempt k and
\* no call after the pull, and the records committed before are in the store.
C4_PullFailurePropagates ==
  \A w \in Workers :
    hist[w].pulled = "error" =>
      /\ drain[w].pc = "raised"
      /\ lastCall.method = "GET" /\ lastCall.k = "raise"
      /\ drain[w].err = lastCall.e
      /\ hist[w].pulls = drain[w].iterations
      /\ hist[w].ackIter < hist[w].pulls
      /\ hist[w].kept = 0
      /\ MineKept(w)

C4_Witness ==
  \E w \in Workers :
    /\ hist[w].pulled = "error" /\ drain[w].err.status = 500
    /\ hist[w].pulls = 2 /\ Len(hist[w].mine) = 1

\* C5: every record of the store has a non-empty chat_id, a non-empty message
\* and one of the three directions, and a pulled notification that carries no
\* chat identifier adds no record.
C5_NoBlankRecords ==
  /\ \A i \in 1 .. Len(store) :
       /\ store[i].chat_id # ""
       /\ store[i].message # ""
       /\ store[i].direction \in {"outgoing", "incoming", "service"}
  /\ \A w \in Workers :
       (drain[w].pc \notin {"idle", "pull", "store"}
          /\ ~Truthy(CarriedChatId(drain[w].notification)))
       => hist[w].kept = 0

C5_Witness ==
  /\ Len(store) = 1
  /\ \E w \in Workers :
       /\ drain[w].pc = "ack" /\ hist[w].pulls = 2 /\ hist[w].kept = 0
       /\ Truthy(CarriedChatId(drain[w].notification))

\* C6: given the same body, the webhook and the drain both store or both
\* discard, and when they store they store the same record.
C6_PathUniformity ==
  (Quiet /\ probe.webhook /\ probe.drain) =>
    /\ Len(store) \in {0, 2}
    /\ Len(store) = 2 => store[1] = store[2]

C6_Witness ==
  /\ Quiet /\ probe.webhook /\ probe.drain
  /\ Len(store) = 2 /\ store[1].direction = "service"

\* C7: a pulled notification without a chat identifier adds no record, raises
\* nothing, is acknowledged when it has a receipt id, and the loop goes on.
C7_DiscardWithoutChatId ==
  \A w \in Workers :
    LET d == drain[w]
    IN (d.pc \notin {"idle", "pull", "store"} /\ hist[w].pulled = "nonempty"
          /\ ~Truthy(CarriedChatId(d.notification)))
       => /\ hist[w].kept = 0
          /\ d.err.exc # "AttributeError"
          /\ IF Truthy(Lookup(d.notification, "receiptId"))
             THEN d.pc = "ack" \/ hist[w].ackIter = d.iterations
             ELSE d.pc = LoopPc(d.iterations, DrainN)

\* C8: a send step adds exactly the record (chat_id, message, outgoing) of the
\* form when the sendMessage call returns, and leaves the store as it was when
\* the call raises or is not made.
C8_SendFlow ==
  [][ (served' = served + 1 /\ last'.handler = "send") =>
        IF lastCall'.k = "ok"
        THEN store' = Append(store,
                        [ chat_id |-> lastCall'.data.f.chatId.v,
                          message |-> lastCall'.data.f.message.v,
                          direction |-> "outgoing" ])
        ELSE store' = store ]_vars

C8_Witness ==
  /\ last.handler = "send" /\ last.flash = "success"
  /\ Len(store) = 2 /\ store[2].direction = "outgoing"
  /\ store[2].chat_id = ChatId /\ store[2].message = "hola"

\* C9: every webhook request is answered with status 200.
C9_WebhookAlways200 ==
  last.handler = "webhook" => last.status = 200

\* C10 as stated: a call made while the base URL, the instance id or the token
\* is missing fails with the configuration error and sends nothing.
C10_ConfigurationCheckAllThree ==
  (lastCall.k # "none"
     /\ (~Truthy(config.GREEN_API_URL) \/ ~Truthy(config.GREEN_INSTANCE_ID)
           \/ ~Truthy(config.GREEN_API_TOKEN)))
  => /\ lastCall.k = "raise"
     /\ lastCall.e = RuntimeErrorFrom("none", 0)
     /\ lastCall.sent = <<>>

\* C10 as amended: a call made while the instance id or the token is missing
\* fails with the configuration error and sends nothing; a call made with both
\* but without a base URL fails as a network error, and sends nothing either.
C10_ConfigurationCheck ==
  lastCall.k # "none" =>
    /\ (~Truthy(config.GREEN_INSTANCE_ID) \/ ~Truthy(config.GREEN_API_TOKEN))
       => /\ lastCall.k = "raise"
          /\ lastCall.e = RuntimeErrorFrom("none", 0)
          /\ lastCall.sent = <<>>
    /\ (Truthy(config.GREEN_INSTANCE_ID) /\ Truthy(config.GREEN_API_TOKEN)
          /\ ~Truthy(config.GREEN_API_URL))
       => /\ lastCall.k = "raise"
          /\ lastCall.e = RuntimeErrorFrom("RequestException", 0)
          /\ lastCall.sent = <<>>

C10_Witness ==
  /\ lastCall.method = "POST" /\ lastCall.k = "raise"
  /\ Truthy(config.GREEN_API_URL) /\ Truthy(config.GREEN_INSTANCE_ID)
  /\ ~Truthy(config.GREEN_API_TOKEN)

\* a body that is a dict whose message section and status section are both
\* missing or empty
EmptySections(body) ==
  /\ body.t = "obj"
  /\ ~Truthy(Lookup(body, "messageData"))
  /\ ~Truthy(Lookup(body, "statusData"))

\* C11: for a body whose message section and status section are both missing
\* or empty, extract_message_text returns None, and neither the webhook nor
\* the drain given that body adds a record.
C11_AbsentText ==
  EmptySections(probe.body) =>
    /\ extract_message_text(probe.body) = Null
    /\ store = <<>>
    /\ \A w \in AllWorkers : hist[w].mine = <<>> /\ drain[w].processed = 0

C11_Witness ==
  /\ Quiet /\ probe.webhook /\ probe.drain
  /\ EmptySections(probe.body)
  /\ Lookup(probe.body, "statusData") = EmptyObj
  /\ Truthy(Lookup(Lookup(probe.body, "senderData"), "chatId"))
  /\ last.handler = "webhook" /\ last.status = 200
  /\ store = <<>>

\* C12: on a body that is a dict, determine_direction returns one of the three
\* directions: incoming exactly for typeWebhook = incomingMessageReceived,
\* outgoing exactly for the two outgoing tags, service for every other value
\* and for a missing tag; the records stored for the body carry that direction.
C12_DirectionTotal ==
  probe.body.t = "obj" =>
    LET tw == Lookup(probe.body, "typeWebhook")
        direction == determine_direction(probe.body)
    IN /\ direction \in {Str("incoming"), Str("outgoing"), Str("service")}
       /\ direction = Str("incoming") <=> tw = Str("incomingMessageReceived")
       /\ direction = Str("outgoing") <=>
            tw \in {Str("outgoingMessageReceived"), Str("outgoingAPIMessageReceived")}
       /\ \A i \in 1 .. Len(store) : Str(store[i].direction) = direction

\* the message section of the probed body when it is one the normaliser can
\* only summarise (a dict with the field pad and no known type tag)
ProbedSection == Lookup(Lookup(probe.body, "messageData"), "pad") # Null

\* C13: the text of a summarised section is "[tag] " followed by the whole
\* serialised section when that is at most 700 characters long, and by its
\* first 700 characters and "..." when it is longer; both paths store it so.
C13_SummaryTruncation ==
  ProbedSection =>
    LET md == Lookup(probe.body, "messageData")
        serial == Dumps(md)
        head == "[" \o Format(OrElse(Lookup(md, "typeMessage"), Str("evento"))) \o "] "
        text == IF Len(serial) > SummaryLimit
                THEN head \o SubSeq(serial, 1, SummaryLimit) \o "..."
                ELSE head \o serial
    IN /\ extract_message_text(probe.body) = Str(text)
       /\ Len(serial) > SummaryLimit => Len(text) = Len(head) + SummaryLimit + 3
       /\ \A i \in 1 .. Len(store) : store[i].message = text

C13_Witness ==
  /\ ProbedSection /\ Quiet /\ probe.webhook /\ probe.drain
  /\ Len(Dumps(Lookup(probe.body, "messageData"))) = SummaryLimit + 1
  /\ Len(store) = 2
  /\ SubSeq(store[2].message, 1, 9) = "[evento] "
  /\ Len(store[2].message) = 9 + SummaryLimit + 3
  /\ SubSeq(store[2].message, 9 + SummaryLimit, 9 + SummaryLimit + 3) = "\"..."

\* C14: every record of the store has a chat_id of at most 64 characters and
\* a message of at most 4096 characters.
C14_LengthBounds ==
  \A i \in 1 .. Len(store) :
    /\ Len(store[i].chat_id) <= MaxChatIdLen
    /\ Len(store[i].message) <= MaxMessageLen

\* C15: the listing holds the min(50, rows) most recent rows by created_at
\* descending, and rows of equal created_at appear in id order (the same
\* direction for every tie of the listing).
C15_RecentListing ==
  last.handler = "dashboard" =>
    LET n == Len(listing)
        Tied(i, j) == created[listing[i]] = created[listing[j]]
    IN /\ n = Min(RecentLimit, Len(created))
       /\ \A i, j \in 1 .. n : i < j =>
            /\ listing[i] # listing[j]
            /\ created[listing[i]] >= created[listing[j]]
       /\ \A k \in 1 .. Len(created) :
            (\A i \in 1 .. n : listing[i] # k) =>
              \A i \in 1 .. n : created[listing[i]] >= created[k]
       /\ \/ \A i, j \in 1 .. n : (i < j /\ Tied(i, j)) => listing[i] < listing[j]
          \/ \A i, j \in 1 .. n : (i < j /\ Tied(i, j)) => listing[i] > listing[j]

\* C16: while two drains run at the same time against one queue, every record
\* a drain has committed is in the store as it was committed, under the id it
\* was given, and the drain has counted it.
C16_IndependentCommits ==
  \A w \in AllWorkers :
    /\ MineKept(w)
    /\ drain[w].processed = Len(hist[w].mine)
    /\ \A i, j \in 1 .. Len(hist[w].mine) :
         i < j => hist[w].mine[i].id < hist[w].mine[j].id

\* both drains were handed the same notification before either asked for its
\* delete, and the store holds two records for it
C16_Witness ==
  /\ drain["w1"].pc = "ack" /\ drain["w2"].pc = "ack"
  /\ drain["w1"].notification = drain["w2"].notification
  /\ gw.out["w1"] = gw.out["w2"] /\ Len(gw.out["w1"]) = 1
  /\ gw.dels["w1"] = <<>> /\ gw.dels["w2"] = <<>>
  /\ Len(gw.queue) = 1
  /\ Len(hist["w1"].mine) = 1 /\ Len(hist["w2"].mine) = 1
  /\ Len(store) = 2 /\ store[1] = store[2]

\* C17: once a drain is past the store step of a pulled non-empty
\* notification, a notification with a receipt id either stands right before
\* its delete, its record already committed, or has had its one delete in
\* this iteration, sent to deleteNotification/{receiptId}; a notification
\* without a receipt id has had no delete.  A drain never makes more deletes
\* than pulls.
C17_AckOrdering ==
  \A w \in Workers :
    LET d == drain[w]
        h == hist[w]
        receipt_id == Lookup(d.notification, "receiptId")
    IN /\ h.acks <= h.pulls
       /\ (d.pc \notin {"idle", "pull", "store"} /\ h.pulled = "nonempty") =>
            IF Truthy(receipt_id)
            THEN \/ d.pc = "ack" /\ h.ackIter < d.iterations /\ MineKept(w)
                 \/ /\ h.ackIter = d.iterations
                    /\ lastCall.method = "DELETE"
                    /\ lastCall.endpoint = "deleteNotification/" \o Format(receipt_id)
            ELSE h.ackIter < d.iterations /\ lastCall.method # "DELETE"

\* the text a queued notification carries
CarriedText(n) ==
  Lookup(Lookup(Lookup(Lookup(n, "body"), "messageData"), "textMessageData"),
         "textMessage")

\* how often the gateway handed n to the current drain of w, how often that
\* drain has been through the store step with it, and how many records with
\* the text of n the drain committed
PulledTimes(w, n) ==
  Cardinality({ i \in 1 .. Len(gw.out[w]) : gw.out[w][i] = n })

HandledTimes(w, n) ==
  Cardinality({ i \in 1 .. Len(gw.out[w]) :
                  /\ gw.out[w][i] = n
                  /\ i < Len(gw.out[w]) \/ drain[w].pc # "store" })

StoredTimes(w, n) ==
  Cardinality({ i \in 1 .. Len(hist[w].mine) :
                  Str(hist[w].mine[i].rec.message) = CarriedText(n) })

\* C18 as stated: a notification whose delete failed is not pulled and
\* persisted a second time by the drain that failed to acknowledge it.
C18_NoRedeliverySameDrain ==
  \A w \in Workers :
    \A k \in 1 .. Len(gw.dels[w]) :
      LET n == gw.out[w][gw.dels[w][k].at]
      IN ~gw.dels[w][k].ok =>
           ~(PulledTimes(w, n) >= 2 /\ StoredTimes(w, n) >= 2)

\* C18 as amended: after a failed delete the notification is still the head
\* of the queue and the drain stands at its next pull while iterations remain;
\* the next pull of the same drain is handed the same notification, and each
\* time the drain goes through the store step with it, it commits its record
\* again.
C18_RedeliverySameDrain ==
  \A w \in Workers :
    drain[w].pc # "idle" =>
      \A k \in 1 .. Len(gw.dels[w]) :
        LET at == gw.dels[w][k].at
            n == gw.out[w][at]
        IN ~gw.dels[w][k].ok =>
             /\ Len(gw.out[w]) = at =>
                  /\ gw.queue # <<>> /\ Head(gw.queue) = n
                  /\ drain[w].pc =
                       (IF drain[w].iterations < DrainN THEN "pull" ELSE "returned")
             /\ Len(gw.out[w]) > at => gw.out[w][at + 1] = n
             /\ (Truthy(CarriedChatId(n)) /\ Truthy(CarriedText(n))) =>
                  StoredTimes(w, n) = HandledTimes(w, n)

C18_Witness ==
  \E w \in Workers :
    /\ drain[w].pc = "ack" /\ drain[w].iterations = 2
    /\ Len(gw.dels[w]) = 1 /\ ~gw.dels[w][1].ok
    /\ PulledTimes(w, gw.out[w][1]) = 2 /\ StoredTimes(w, gw.out[w][1]) = 2
    /\ Len(store) = 2 /\ store[1] = store[2]

\* C19: for a body whose message section is not empty, extract_message_text
\* returns a non-empty text (never None, never an exception), and a path given
\* the body with a chat identifier stores a record.
C19_FailClosed ==
  (probe.body.t = "obj" /\ Truthy(Lookup(probe.body, "messageData"))) =>
    LET text == extract_message_text(probe.body)
    IN /\ text.t = "str" /\ text.v # ""
       /\ (probe.webhook /\ Truthy(Lookup(Lookup(probe.body, "senderData"), "chatId")))
            => /\ last.handler = "webhook" => last.status = 200
               /\ Len(store) >= 1

\* every delete the drain of w has asked for so far removed its notification
EveryDeleteSucceeded(w) ==
  \A k \in 1 .. Len(gw.dels[w]) : gw.dels[w][k].ok

\* every notification queued when the drain of w began carries a receipt id
EveryReceiptId(w) ==
  \A i \in 1 .. Len(gw.queued[w]) :
    Truthy(Lookup(gw.queued[w][i], "receiptId"))

\* the place in the queue of the notification a record was made from
PlaceOf(w, rec) ==
  CHOOSE i \in 1 .. Len(gw.queued[w]) :
    CarriedText(gw.queued[w][i]) = Str(rec.message)

\* what C20 says of the drain of w: the notifications handed out are the
\* first of the queue, each once and in order; each has at most one record,
\* the records stand in the store in queue order, and the drain returns the
\* number of records it added, which is at most the number of its pulls
PulledOnceInOrder(w) ==
  LET out == gw.out[w]
      mine == hist[w].mine
  IN /\ Len(out) <= Len(gw.queued[w])
     /\ out = SubSeq(gw.queued[w], 1, Len(out))
     /\ \A i \in 1 .. Len(out) :
          PulledTimes(w, out[i]) = 1 /\ StoredTimes(w, out[i]) <= 1
     /\ \A a, b \in 1 .. Len(mine) :
          a < b => /\ mine[a].id < mine[b].id
                   /\ PlaceOf(w, mine[a].rec) < PlaceOf(w, mine[b].rec)
     /\ MineKept(w)
     /\ Len(mine) <= hist[w].pulls
     /\ drain[w].pc = "returned" => drain[w].processed = Len(mine)

\* C20 as stated: in a drain that no other drain overlaps and whose every
\* delete succeeds, each queued notification is pulled at most once and
\* persisted at most once, in queue order, and the drain returns the number
\* of records it added.
C20_SingleDrainAsStated ==
  \A w \in Workers :
    (drain[w].pc # "idle" /\ EveryDeleteSucceeded(w)) => PulledOnceInOrder(w)

\* C20 as amended: the same, for a queue whose notifications all carry a
\* receipt id.
C20_SingleDrain ==
  \A w \in Workers :
    (drain[w].pc # "idle" /\ EveryDeleteSucceeded(w) /\ EveryReceiptId(w))
    => PulledOnceInOrder(w)

C20_Witness ==
  \E w \in Workers :
    /\ drain[w].pc = "returned" /\ EveryDeleteSucceeded(w) /\ EveryReceiptId(w)
    /\ Len(gw.out[w]) = 2 /\ Len(gw.dels[w]) = 2 /\ gw.queue = <<>>
    /\ hist[w].pulls = 2 /\ drain[w].processed = 2
    /\ Len(store) = 2 /\ store[1].message = "m1" /\ store[2].message = "m2"

====
